---- MODULE Spec2Model ----
(***************************************************************************)
(* Campaign send pipeline of WBroadcast_backend.                           *)
(*                                                                         *)
(*   scheduler bridge   src/server/services/scheduler.js                   *)
(*   send loop, status  src/unnamed/part_006 (services/whatsappService.js, *)
(*   reconciler         the version with notifications that routes/n8n.js  *)
(*                      imports)                                           *)
(*   notifications      src/server/services/notificationService.js         *)
(*   creation webhook   src/server/routes/n8n.js                           *)
(*                                                                         *)
(* Persistence.  Campaign and Message are mongoose documents.  A handler   *)
(* works on the in-memory document it loaded and `save()` writes back the  *)
(* paths it assigned (a `$set` per modified path), so the send loop, which *)
(* keeps one document for the whole run, writes `progress.sent` and        *)
(* `progress.failed` from its own copy.  The variables c* are the stored   *)
(* documents; `worker` holds the job handler's in-memory document.         *)
(*                                                                         *)
(* Queue.  `campaignQueue.process('send-campaign', fn)` registers the      *)
(* handler with concurrency 1: one job is processed at a time.  The queue  *)
(* library is not part of the repository: `job.remove()` of a job that its *)
(* worker holds is taken to either reject or resolve.                      *)
(*                                                                         *)
(* Time.  `now` is the clock in whole units; a job waits `delay` units     *)
(* from the moment it was added.                                           *)
(***************************************************************************)
EXTENDS Integers, Sequences, FiniteSets, TLC

\* ---------------------------------------------------------------- bounds
NumCampaigns == 1
NumContacts == 2
MaxJobs == 2
MaxHooks == 2
MaxTs == 2
MaxTime == 1
MaxReplyId == 2
MaxPhoneLen == 11
MaxBody == 3
\* the number of times the process may die while it handles one job
MaxCrashes == 1

\* ------------------------------------------------------ program constants
\* attempts: 3 in the options of campaignQueue.add
JobAttempts == 3
\* backoff: {type: 'exponential', delay: 2000}
BackoffDelay == 2000

Campaigns == 1..NumCampaigns
Contacts == 1..NumContacts
\* provider message ids that can appear in a status callback: one per
\* dispatch that can happen, and one id no Message carries
MaxWamid == MaxJobs * NumContacts + 1
Wamids == 1..MaxWamid
HookStatuses == {"sent", "delivered", "read", "failed"}
\* ids of inbound messages: one per callback, so that a redelivery of an
\* inbound message can happen
InboundIds == 1..MaxHooks
\* scheduledAt values a caller can ask for
Times == 0..MaxTime
\* message ids the provider returns for automated replies
ReplyIds == 1..MaxReplyId

VARIABLES
    cStatus,    \* Campaign.status, "none" before the campaign is created
    cJobId,     \* Campaign.jobId, 0 for null
    cProg,      \* Campaign.progress
    eligible,   \* Contact: status == 'active' && optedOut == false
    template,   \* the live catalog holds the campaign's template, approved
    jobs,       \* the Bull queue: job id = index
    worker,     \* the job handler in progress and its campaign document;
                \* rate is campaign.rateLimitPerMinute (0: unset or 0),
                \* susp the number of rate-limit suspensions of the run
                \* and waited their total length in ms
    msgs,       \* the Message collection, in creation order
    nDispatch,  \* number of POSTs to the messaging API, per campaign
    hooks,      \* number of provider callbacks (POST /webhook) processed
    responses,  \* the Response collection, in creation order
    now,        \* the clock
    cSchedAt,   \* Campaign.scheduledAt
    phoneCall,  \* one call of formatPhoneNumber: argument and results
    buildCall,  \* one call of the body-parameter builder: arguments and
                \* result
    last        \* the operation that produced this state: its name, its
                \* campaign, two details, the number of io.emit calls it
                \* made, the Message it created or updated, the external
                \* id or the time it was called with and how it answered
                \* its caller

vars == <<cStatus, cJobId, cProg, eligible, template, jobs, worker, msgs,
          nDispatch, hooks, responses, now, cSchedAt, phoneCall, buildCall,
          last>>

\* ----------------------------------------------------------------- helpers
ZeroProgress ==
    [total |-> 0, sent |-> 0, delivered |-> 0, read |-> 0, failed |-> 0]

Idle ==
    [job |-> 0, pc |-> "idle", c |-> 0, i |-> 0, cl |-> <<>>,
     lstatus |-> "none", lsent |-> 0, lfailed |-> 0, out |-> "none",
     rate |-> 0, susp |-> 0, waited |-> 0]

Op(o, c, a, b, ev) ==
    [op |-> o, c |-> c, a |-> a, b |-> b, ev |-> ev, m |-> 0, w |-> 0,
     res |-> "none"]

RECURSIVE SeqOfSet(_)
\* the members of a set of numbers in increasing order
SeqOfSet(S) ==
    IF S = {} THEN <<>>
    ELSE LET m == CHOOSE x \in S : \A y \in S : x <= y
         IN <<m>> \o SeqOfSet(S \ {m})

\* Contact.find({_id: {$in: campaign.contacts}, status: 'active',
\*               optedOut: false})
EligibleContacts == SeqOfSet({k \in Contacts : eligible[k]})

MsgsOf(c) == {m \in 1..Len(msgs) : msgs[m].camp = c}

\* no call of formatPhoneNumber
NoPhoneCall == [raw |-> <<>>, out |-> <<>>, again |-> <<>>, applied |-> FALSE]

\* no call of the body-parameter builder
NoBuildCall ==
    [body |-> <<>>, variables |-> <<>>, contact |-> <<>>, params |-> <<>>,
     applied |-> FALSE]

\* the stored documents, the queue and the clock after start-up
InitPipeline ==
    /\ cStatus = [c \in Campaigns |-> "none"]
    /\ cJobId = [c \in Campaigns |-> 0]
    /\ cProg = [c \in Campaigns |-> ZeroProgress]
    /\ eligible = [k \in Contacts |-> TRUE]
    /\ template = TRUE
    /\ jobs = <<>>
    /\ worker = Idle
    /\ msgs = <<>>
    /\ nDispatch = [c \in Campaigns |-> 0]
    /\ hooks = 0
    /\ responses = <<>>
    /\ now = 0
    /\ cSchedAt = [c \in Campaigns |-> 0]
    /\ last = Op("init", 0, "none", "none", 0)

Init ==
    /\ InitPipeline
    /\ phoneCall = NoPhoneCall
    /\ buildCall = NoBuildCall

\* ------------------------------------------------------- scheduler bridge
\* scheduleCampaign with the delay taken as it comes, also when negative
ScheduleDelaySigned(at, t) == at - t

\* const delay = scheduledAt - Date.now(); a delay <= 0 adds the job with
\* no delay option, which the queue takes as 0
ScheduleDelay(at, t) == IF at - t <= 0 THEN 0 ELSE at - t

\* campaignQueue.add('send-campaign', {campaignId},
\*                   {delay, attempts: 3, backoff: {exponential, 2000}})
AddJob(js, c, d, t) ==
    Append(js, [camp |-> c, st |-> "pending", att |-> 0, ts |-> t,
                delay |-> d, attempts |-> JobAttempts,
                backoff |-> BackoffDelay, stalled |-> 0])

\* the queue after scheduleCampaign(campaign): enq is whether
\* campaignQueue.add resolved
ScheduleCampaign(js, c, at, t, enq) ==
    IF enq THEN AddJob(js, c, ScheduleDelay(at, t), t) ELSE js

\* campaign.jobId = job.id.toString(); await campaign.save(): the handle
\* stored after scheduleCampaign; when the add rejects the function throws
\* before it assigns
StoredJobId(js, old, enq) == IF enq THEN Len(js) + 1 ELSE old

\* the creation webhook without its test of the resolved contacts
CreateRejectedIgnoreContacts(tmplExists, cl) == ~tmplExists

\* if (!template) return res.status(400)...;
\* if (contacts.length === 0) return res.status(400)...
CreateRejected(tmplExists, cl) == ~tmplExists \/ cl = <<>>

\* router.post('/webhook/campaign'): create the campaign and schedule it.
\* tmplExists is whether Template.findById(templateId) finds the template;
\* the request names every contact, of which the active ones that have
\* not opted out are resolved
CreateCampaign(c, at) ==
    /\ cStatus[c] = "none"
    /\ Len(jobs) < MaxJobs
    /\ \E tmplExists \in BOOLEAN, enq \in BOOLEAN :
         LET cl == EligibleContacts
             given == IF tmplExists THEN "none" ELSE "notemplate"
         IN IF CreateRejected(tmplExists, cl)
            THEN /\ last' = [Op("reject", c, given,
                                IF tmplExists THEN "contacts"
                                ELSE "template", 0)
                             EXCEPT !.w = at, !.res = "400"]
                 /\ UNCHANGED <<cStatus, cProg, cSchedAt, jobs, cJobId>>
            ELSE /\ cStatus' = [cStatus EXCEPT ![c] = "scheduled"]
                 /\ cProg' = [cProg EXCEPT
                                ![c] = [ZeroProgress EXCEPT
                                          !.total = Len(cl)]]
                 /\ cSchedAt' = [cSchedAt EXCEPT ![c] = at]
                 /\ jobs' = ScheduleCampaign(jobs, c, at, now, enq)
                 /\ cJobId' = [cJobId EXCEPT
                                 ![c] = StoredJobId(jobs, 0, enq)]
                 /\ last' = [Op("create", c, given,
                                IF enq THEN "none" ELSE "enqueue", 0)
                             EXCEPT !.w = at,
                                    !.res = IF enq THEN "201" ELSE "500"]
    /\ UNCHANGED <<eligible, template, worker, msgs, nDispatch, hooks,
                   responses, now,
                   phoneCall, buildCall>>

\* a contact opts out or is deactivated (contact maintenance, outside the
\* send pipeline)
ContactOptOut(k) ==
    /\ eligible[k]
    /\ eligible' = [eligible EXCEPT ![k] = FALSE]
    /\ last' = Op("optout", 0, "none", "none", 0)
    /\ UNCHANGED <<template, cStatus, cJobId, cProg, jobs, worker, msgs,
                   nDispatch, hooks, responses, now, cSchedAt,
                   phoneCall, buildCall>>

\* the template is removed from, or put back in, the provider's catalog of
\* approved templates
TemplateChange ==
    /\ template' = ~template
    /\ last' = Op("template", 0, "none", "none", 0)
    /\ UNCHANGED <<cStatus, cJobId, cProg, eligible, jobs, worker, msgs,
                   nDispatch, hooks, responses, now, cSchedAt,
                   phoneCall, buildCall>>

\* cancelCampaign without the removal of the waiting job
RemoveJobNoop(js, j) == js

\* job.remove() of cancelCampaign: a job still waiting in the queue is
\* removed; a job that was consumed is left as it is
RemoveJob(js, j) ==
    IF js[j].st = "pending" THEN [js EXCEPT ![j].st = "removed"] ELSE js

\* job.remove() rejects: only a job that the worker is processing can
\* refuse its removal
RemoveRejects(js, j, rejects) == js[j].st = "active" /\ rejects

\* cancelCampaign(campaignId)
CancelCampaign(c) ==
    /\ cStatus[c] # "none"
    /\ cJobId[c] # 0
    /\ \E rejects \in BOOLEAN :
         IF RemoveRejects(jobs, cJobId[c], rejects)
         THEN /\ last' = [Op("cancel", c, cStatus[c], "active", 0)
                          EXCEPT !.res = "error"]
              /\ UNCHANGED <<jobs, cStatus, cJobId>>
         ELSE /\ jobs' = RemoveJob(jobs, cJobId[c])
              /\ cStatus' = [cStatus EXCEPT ![c] = "cancelled"]
              /\ cJobId' = [cJobId EXCEPT ![c] = 0]
              /\ last' = [Op("cancel", c, cStatus[c], jobs[cJobId[c]].st, 0)
                          EXCEPT !.res = "ok"]
    /\ UNCHANGED <<cProg, eligible, template, worker, msgs, nDispatch, hooks,
                   responses, now, cSchedAt,
                   phoneCall, buildCall>>

\* the status rescheduleCampaign stores: it assigns 'scheduled' to the
\* document it loaded before cancelling, and save() writes the path only
\* when that assignment changed the document
RescheduledStatus(loaded, stored) ==
    IF loaded # "scheduled" THEN "scheduled" ELSE stored

\* rescheduleCampaign(campaignId, newScheduledAt)
RescheduleCampaign(c, at) ==
    /\ cStatus[c] # "none"
    /\ Len(jobs) < MaxJobs
    /\ \E rejects \in BOOLEAN, enq \in BOOLEAN :
         LET hadJob == cJobId[c] # 0
             afterCancel == IF hadJob THEN "cancelled" ELSE cStatus[c]
             js == IF hadJob THEN RemoveJob(jobs, cJobId[c]) ELSE jobs
         IN IF hadJob /\ RemoveRejects(jobs, cJobId[c], rejects)
            THEN /\ last' = [Op("reschedule", c, cStatus[c], "cancel", 0)
                             EXCEPT !.w = at, !.res = "error"]
                 /\ UNCHANGED <<jobs, cStatus, cJobId, cSchedAt>>
            ELSE /\ jobs' = ScheduleCampaign(js, c, at, now, enq)
                 /\ cStatus' = [cStatus EXCEPT ![c] =
                                  IF enq
                                  THEN RescheduledStatus(cStatus[c],
                                                         afterCancel)
                                  ELSE afterCancel]
                 /\ cJobId' = [cJobId EXCEPT ![c] =
                                 StoredJobId(jobs, 0, enq)]
                 /\ cSchedAt' = [cSchedAt EXCEPT ![c] =
                                   IF enq THEN at ELSE @]
                 /\ last' = [Op("reschedule", c, cStatus[c],
                                IF enq THEN "none" ELSE "enqueue", 0)
                             EXCEPT !.w = at,
                                    !.res = IF enq THEN "ok" ELSE "error"]
    /\ UNCHANGED <<cProg, eligible, template, worker, msgs, nDispatch, hooks,
                   responses, now,
                   phoneCall, buildCall>>

\* --------------------------------------------------------- the job handler
\* the delay of a job has elapsed
JobDue(job, t) == job.ts + job.delay <= t

\* the queue hands a waiting job whose delay has elapsed to the handler,
\* which re-fetches the campaign: Campaign.findById(campaignId)
JobFire(j) ==
    /\ worker.pc = "idle"
    /\ j \in 1..Len(jobs)
    /\ jobs[j].st = "pending"
    /\ JobDue(jobs[j], now)
    /\ jobs' = [jobs EXCEPT ![j].st = "active", ![j].att = @ + 1]
    /\ LET c == jobs[j].camp
       IN /\ worker' = [Idle EXCEPT !.job = j, !.pc = "fetched", !.c = c,
                           !.lstatus = cStatus[c],
                           !.lsent = cProg[c].sent,
                           !.lfailed = cProg[c].failed]
          /\ last' = Op("fire", c, cStatus[c], "none", 0)
    /\ UNCHANGED <<cStatus, cJobId, cProg, eligible, template, msgs,
                   nDispatch, hooks,
                   responses, now, cSchedAt,
                   phoneCall, buildCall>>

\* the handler without its status guard
HandlerProceedsAlways(status) == TRUE

\* if (campaign.status !== 'scheduled') return;
HandlerProceeds(status) == status = "scheduled"

\* the handler returns without an error: the job is completed
JobDone(js, j) == [js EXCEPT ![j].st = "completed"]

\* the handler throws: Bull retries the job while attempts remain
JobThrown(js, j) ==
    [js EXCEPT ![j].st = IF js[j].att < JobAttempts THEN "pending"
                         ELSE "failed"]

\* the handler's early return
HandlerSkip ==
    /\ worker.pc = "fetched"
    /\ ~HandlerProceeds(worker.lstatus)
    /\ jobs' = JobDone(jobs, worker.job)
    /\ worker' = Idle
    /\ last' = Op("skip", worker.c, worker.lstatus, "none", 0)
    /\ UNCHANGED <<cStatus, cJobId, cProg, eligible, template, msgs,
                   nDispatch, hooks,
                   responses, now, cSchedAt,
                   phoneCall, buildCall>>

\* campaign.status = 'sending'; await campaign.save(); io.emit(...)
HandlerStart ==
    /\ worker.pc = "fetched"
    /\ HandlerProceeds(worker.lstatus)
    /\ cStatus' = [cStatus EXCEPT ![worker.c] = "sending"]
    /\ worker' = [worker EXCEPT !.pc = "setup", !.lstatus = "sending"]
    /\ last' = Op("start", worker.c, "none", "none", 1)
    /\ UNCHANGED <<cJobId, cProg, eligible, template, jobs, msgs, nDispatch,
                   hooks,
                   responses, now, cSchedAt,
                   phoneCall, buildCall>>

\* ---------------------------------------------------------- the send loop
\* the catch of sendCampaignMessages followed by the catch of the job
\* handler: the campaign is saved as failed, notifyBroadcastFailed is
\* awaited (when it throws, the loop's own emit is skipped), the handler
\* emits the failed status and rethrows to the queue
FailCampaign(c, reason, at, notified) ==
    /\ cStatus' = [cStatus EXCEPT ![c] = "failed"]
    /\ jobs' = JobThrown(jobs, worker.job)
    /\ worker' = Idle
    /\ last' = Op("fail", c, reason, at, IF notified THEN 2 ELSE 1)

\* the setup without the template check
SetupFailsIgnoreTemplate(tmpl, cl) == cl = <<>>

\* if (!template) throw ...; if (contacts.length === 0) throw ...
SetupFails(tmpl, cl) == ~tmpl \/ cl = <<>>

\* the loop's rate limit: campaign.rateLimitPerMinute || 1000
RateLimitPerMinute(rate) == IF rate = 0 THEN 1000 ELSE rate

\* const delayBetweenMessages = (60 * 1000) / rateLimitPerMinute, in ms
DelayBetweenMessages(rate) == (60 * 1000) \div RateLimitPerMinute(rate)

\* the values of campaign.rateLimitPerMinute a campaign is run with: unset
\* or 0, 60 and 1000
CampaignRates == {0, 60, 1000}

\* rateLimitPerMinute: rateLimitPerMinute || 1000 of the creation webhook
\* for a request that names no rate
DefaultRates == {1000}

\* sendCampaignMessages up to the first dispatch: template, contacts,
\* progress.total, notifyBroadcastStarted, the delay between messages.
\* rates are the values campaign.rateLimitPerMinute may have
LoopSetup(rates) ==
    /\ worker.pc = "setup"
    /\ \E notifyOk \in BOOLEAN, nf \in BOOLEAN, rate \in rates :
         LET c == worker.c
             cl == EligibleContacts
         IN IF SetupFails(template, cl)
            THEN /\ FailCampaign(c, IF template THEN "contacts"
                                    ELSE "template", "setup", nf)
                 /\ UNCHANGED cProg
            ELSE /\ cProg' = [cProg EXCEPT ![c].total = Len(cl)]
                 /\ IF notifyOk
                    THEN /\ worker' = [worker EXCEPT !.pc = "dispatch",
                                          !.i = 1, !.cl = cl,
                                          !.rate = rate]
                         /\ last' = Op("setup", c, "none", "none", 1)
                         /\ UNCHANGED <<cStatus, jobs>>
                    ELSE FailCampaign(c, "notify", "setup", nf)
    /\ UNCHANGED <<cJobId, eligible, template, msgs, nDispatch, hooks,
                   responses, now, cSchedAt,
                   phoneCall, buildCall>>

\* the external ids that Message records carry
UsedWamids == {msgs[m].wamid : m \in 1..Len(msgs)} \ {0}

\* an id the provider has not returned before
FreshWamid ==
    LET used == UsedWamids \cup {0}
    IN 1 + CHOOSE x \in used : \A y \in used : y <= x

\* response.data.messages[0].id: the provider answers an accepted message
\* with an id, a new one or one it returned before
ProviderIds == {FreshWamid} \cup UsedWamids

\* the Message collection without its unique index
WamidTakenNever(id) == FALSE

\* whatsappMessageId: {unique: true, sparse: true}: Message.save() is
\* rejected when another Message carries the id
WamidTaken(id) == id \in UsedWamids

\* new Message({... status: 'sent', whatsappMessageId, sentAt}) on success,
\* new Message({... status: 'failed', errorMessage, sentAt}) in the catch
NewMessage(c, k, ok, id) ==
    [camp |-> c, contact |-> k,
     status |-> IF ok THEN "sent" ELSE "failed",
     wamid |-> IF ok THEN id ELSE 0,
     sentAt |-> Len(msgs) + 1, deliveredAt |-> 0, readAt |-> 0,
     err |-> ~ok]

\* whatsappMessageId: response.data.messages?.[0]?.id || null: the id stored
\* for a 2xx answer that carries no message id.  The field is then present
\* with the value null, which the unique index holds like any other value
NullWamid == -1

\* what the messaging API can answer to one POST: a 2xx with a message id
\* ("ok"), a 2xx whose messages[0] has no id ("noid"), a 2xx without
\* messages[0] ("nomessages"), a non-2xx status ("fail"), or no answer
\* ("transport"); axios rejects for the last two
ProviderAnswers == {"ok", "noid", "nomessages", "fail", "transport"}

\* the answers of a provider that returns a message id with every 2xx
RegularAnswers == {"ok", "fail"}

\* one contact: axios.post and the Message record of its outcome; when the
\* POST fails, or the save of the sent Message is rejected, the catch
\* records a failed Message.  answers are the answers the provider may give
LoopDispatch(answers) ==
    /\ worker.pc = "dispatch"
    /\ \E ans \in answers, id \in ProviderIds :
         LET posted == ans \in {"ok", "noid", "nomessages"}
             rid == IF ans = "ok" THEN id ELSE NullWamid
             ok == posted /\ ~WamidTaken(rid)
         IN /\ msgs' = Append(msgs, NewMessage(worker.c, worker.cl[worker.i],
                                               ok, rid))
            /\ worker' = [worker EXCEPT !.pc = "progress",
                             !.out = IF ok THEN "ok" ELSE "fail"]
            /\ last' = [Op("dispatch", worker.c,
                           IF ok THEN "ok"
                           ELSE IF posted THEN "duplicate" ELSE "fail",
                           ans, 0)
                        EXCEPT !.m = Len(msgs) + 1, !.w = IF posted THEN rid
                                                          ELSE 0]
    /\ nDispatch' = [nDispatch EXCEPT ![worker.c] = @ + 1]
    /\ UNCHANGED <<cStatus, cJobId, cProg, eligible, template, jobs, hooks,
                   responses, now, cSchedAt,
                   phoneCall, buildCall>>

\* campaign.progress.sent++ / campaign.progress.failed++ on the loop's
\* document, then campaign.save()
LoopCount(prog, w) ==
    IF w.out = "ok" THEN [prog EXCEPT !.sent = w.lsent + 1]
    ELSE [prog EXCEPT !.failed = w.lfailed + 1]

\* the loop that waits after every contact, the last one included
SuspendsAlways(i, n) == TRUE

\* if (i < contacts.length - 1) await new Promise(... setTimeout ...): i is
\* the zero-based index of the contact just processed, n the number of
\* contacts
Suspends(i, n) == i < n - 1

\* the loop without its i++: the same contact is taken again
LoopAdvanceRepeat(w) ==
    [w EXCEPT !.pc = "dispatch",
              !.lsent = IF w.out = "ok" THEN w.lsent + 1 ELSE w.lsent,
              !.lfailed = IF w.out = "fail" THEN w.lfailed + 1 ELSE w.lfailed,
              !.out = "none"]

\* for (let i = 0; i < contacts.length; i++): the next contact after the
\* rate-limit delay, or the end of the loop (w.i counts from 1)
LoopAdvance(w) ==
    [w EXCEPT !.pc = IF w.i < Len(w.cl) THEN "dispatch" ELSE "complete",
              !.susp = IF Suspends(w.i - 1, Len(w.cl)) THEN @ + 1 ELSE @,
              !.waited = IF Suspends(w.i - 1, Len(w.cl))
                         THEN @ + DelayBetweenMessages(w.rate) ELSE @,
              !.i = IF w.i < Len(w.cl) THEN w.i + 1 ELSE w.i,
              !.lsent = IF w.out = "ok" THEN w.lsent + 1 ELSE w.lsent,
              !.lfailed = IF w.out = "fail" THEN w.lfailed + 1 ELSE w.lfailed,
              !.out = "none"]

\* the counter of the contact just processed is saved; a failed dispatch
\* also awaits notifyMessageFailed inside the per-contact catch.  saves are
\* the outcomes campaign.save() may have (TRUE: it resolves).  When the
\* save after progress.sent++ rejects, the per-contact catch runs for a
\* contact whose sent Message is stored: it stores a failed Message for
\* the same contact, increments progress.failed and saves again, which
\* writes both counters of the loop's document.  When the save inside the
\* catch rejects, the error leaves the loop and the outer catch saves the
\* campaign as failed, counter included
LoopProgress(saves) ==
    /\ worker.pc = "progress"
    /\ \E saveOk \in saves, notifyOk \in BOOLEAN, nf \in BOOLEAN :
         LET c == worker.c
         IN IF saveOk
            THEN /\ cProg' = [cProg EXCEPT ![c] = LoopCount(@, worker)]
                 /\ UNCHANGED msgs
                 /\ IF worker.out = "ok" \/ notifyOk
                    THEN /\ worker' = LoopAdvance(worker)
                         /\ last' = Op("progress", c, worker.out, "none", 1)
                         /\ UNCHANGED <<cStatus, jobs>>
                    ELSE FailCampaign(c, "notify", "progress", nf)
            ELSE IF worker.out = "ok"
            THEN /\ msgs' = Append(msgs, NewMessage(c, worker.cl[worker.i],
                                                    FALSE, 0))
                 /\ cProg' = [cProg EXCEPT
                                ![c].sent = worker.lsent + 1,
                                ![c].failed = worker.lfailed + 1]
                 /\ IF notifyOk
                    THEN /\ worker' = LoopAdvance(
                                          [worker EXCEPT !.lsent = @ + 1,
                                                         !.out = "fail"])
                         /\ last' = [Op("progress", c, "saveerr", "none", 1)
                                     EXCEPT !.m = Len(msgs) + 1]
                         /\ UNCHANGED <<cStatus, jobs>>
                    ELSE FailCampaign(c, "notify", "progress", nf)
            ELSE /\ cProg' = [cProg EXCEPT ![c] = LoopCount(@, worker)]
                 /\ UNCHANGED msgs
                 /\ FailCampaign(c, "save", "progress", nf)
    /\ UNCHANGED <<cJobId, eligible, template, nDispatch, hooks,
                   responses, now, cSchedAt, phoneCall, buildCall>>

\* campaign.status = 'completed'; await campaign.save();
LoopComplete ==
    /\ worker.pc = "complete"
    /\ cStatus' = [cStatus EXCEPT ![worker.c] = "completed"]
    /\ worker' = [worker EXCEPT !.pc = "notify", !.lstatus = "completed"]
    /\ last' = Op("complete", worker.c, "none", "none", 0)
    /\ UNCHANGED <<cJobId, cProg, eligible, template, jobs, msgs, nDispatch,
                   hooks,
                   responses, now, cSchedAt,
                   phoneCall, buildCall>>

\* await notifyBroadcastCompleted(...); the two completion emits; return
LoopFinish ==
    /\ worker.pc = "notify"
    /\ \E notifyOk \in BOOLEAN, nf \in BOOLEAN :
         IF notifyOk
         THEN /\ jobs' = JobDone(jobs, worker.job)
              /\ worker' = Idle
              /\ last' = Op("finish", worker.c, "none", "none", 2)
              /\ UNCHANGED cStatus
         ELSE FailCampaign(worker.c, "notify", "finish", nf)
    /\ UNCHANGED <<cJobId, cProg, eligible, template, msgs, nDispatch, hooks,
                   responses, now, cSchedAt,
                   phoneCall, buildCall>>

\* ------------------------------------------------------ status reconciler
\* Message.findOne without its filter: the first Message of the collection
FindMessageAny(w) == IF Len(msgs) > 0 THEN 1 ELSE 0

\* Message.findOne({whatsappMessageId}): 0 when there is none
FindMessage(w) ==
    IF \E m \in 1..Len(msgs) : msgs[m].wamid = w
    THEN CHOOSE m \in 1..Len(msgs) : msgs[m].wamid = w
    ELSE 0

\* the timestamp assignment without its guard
FirstTimestampOverwrite(old, ts) == ts

\* if (!message.xAt) message.xAt = new Date(timestamp * 1000)
FirstTimestamp(old, ts) == IF old = 0 THEN ts ELSE old

\* the switch of updateMessageStatus on the message
StatusApplied(m, s, ts) ==
    [m EXCEPT !.status = s,
              !.sentAt = IF s = "sent" THEN FirstTimestamp(@, ts) ELSE @,
              !.deliveredAt = IF s = "delivered" THEN FirstTimestamp(@, ts)
                              ELSE @,
              !.readAt = IF s = "read" THEN FirstTimestamp(@, ts) ELSE @,
              !.err = IF s = "failed" THEN TRUE ELSE @]

\* the failed case without the decrement of progress.sent
FailedCompensationNoDecrement(prog) == [prog EXCEPT !.failed = @ + 1]

\* case 'failed': campaign.progress.failed++; campaign.progress.sent--;
FailedCompensation(prog) ==
    [prog EXCEPT !.failed = @ + 1, !.sent = @ - 1]

\* the switch with a counter for every status: delivered and read are
\* counted as well
StatusCountedAll(prog, s) ==
    CASE s = "failed" -> FailedCompensation(prog)
      [] s = "delivered" -> [prog EXCEPT !.delivered = @ + 1]
      [] s = "read" -> [prog EXCEPT !.read = @ + 1]
      [] OTHER -> prog

\* the effect of the switch of updateMessageStatus on the campaign's
\* counters: only the failed case touches campaign.progress
StatusCounted(prog, s) ==
    IF s = "failed" THEN FailedCompensation(prog) ELSE prog

\* router.post('/webhook'): res.status(200).send('EVENT_RECEIVED') when
\* handleWhatsAppWebhook returns, res.sendStatus(500) when it throws
WebhookAnswer(threw) == IF threw THEN "500" ELSE "200"

\* POST /webhook with one status event: handleWhatsAppWebhook calls
\* updateMessageStatus(statusUpdate), which throws when message.save() or
\* campaign.save() rejects (sv names the save that rejects)
UpdateMessageStatus(w, s, ts) ==
    /\ hooks < MaxHooks
    /\ hooks' = hooks + 1
    /\ \E sv \in {"none", "message", "campaign"} :
         LET m == FindMessage(w)
             threw == \/ sv = "message"
                      \/ sv = "campaign" /\ s = "failed"
         IN IF m = 0
            THEN /\ last' = [Op("status", 0, s, "unknown", 0)
                             EXCEPT !.w = w, !.res = WebhookAnswer(FALSE)]
                 /\ UNCHANGED <<msgs, cProg>>
            ELSE /\ msgs' = IF sv = "message" THEN msgs
                            ELSE [msgs EXCEPT ![m] = StatusApplied(@, s, ts)]
                 /\ cProg' = IF ~threw
                             THEN [cProg EXCEPT ![msgs[m].camp] =
                                      StatusCounted(@, s)]
                             ELSE cProg
                 /\ last' = [Op(IF threw THEN "statuserr" ELSE "status",
                                msgs[m].camp, s, msgs[m].status, 0)
                             EXCEPT !.m = m, !.w = w,
                                    !.res = WebhookAnswer(threw)]
    /\ UNCHANGED <<cStatus, cJobId, eligible, template, jobs, worker,
                   nDispatch, responses, now, cSchedAt,
                   phoneCall, buildCall>>

\* ------------------------------------------------------ inbound messages
\* the lookup without its status filter: the most recent Message of the
\* contact, whatever its status
FindOriginalContextAnyStatus(k) ==
    LET S == {m \in 1..Len(msgs) : msgs[m].contact = k}
    IN IF S = {} THEN 0
       ELSE CHOOSE m \in S : \A n \in S : msgs[n].sentAt <= msgs[m].sentAt

\* findOriginalContext(contactId): the most recent Message sent to the
\* contact whose status is sent, delivered or read; 0 when there is none
FindOriginalContext(k) ==
    LET S == {m \in 1..Len(msgs) :
                 /\ msgs[m].contact = k
                 /\ msgs[m].status \in {"sent", "delivered", "read"}}
    IN IF S = {} THEN 0
       ELSE CHOOSE m \in S : \A n \in S : msgs[n].sentAt <= msgs[m].sentAt

\* Response.whatsappMessageId: {required: true, unique: true}
ResponseIdTaken(id) == \E r \in 1..Len(responses) : responses[r].id = id

\* triggerN8nResponseWorkflow whose catch rethrows
ForwardThrowsOnFailure(fwd) == fwd = "fail"

\* triggerN8nResponseWorkflow: its catch logs and returns null
ForwardThrows(fwd) == FALSE

\* the message types of the switch of handleIncomingMessage
MediaTypes == {"image", "video", "audio", "document"}

\* types the switch has no case for
OtherTypes == {"location", "sticker"}

\* the inbound messages of the enumeration: type is messageData.type, sub
\* is messageData.interactive.type ("none": no interactive part), content
\* is the field the switch reads for the type (text.body, button.text, the
\* title of the reply, the caption): "absent" when the object that holds
\* the field is missing, "" when the field is empty or missing
InboundMessages ==
    [type : {"text", "button"} \cup MediaTypes, sub : {"none"},
     content : {"absent", "", "hello"}]
    \cup [type : {"interactive"},
          sub : {"none", "button_reply", "list_reply", "nfm_reply"},
          content : {"absent", "", "hello"}]
    \cup [type : OtherTypes, sub : {"none"}, content : {"absent"}]

\* a text message with a body
PlainText == [type |-> "text", sub |-> "none", content |-> "hello"]

\* text messages with and without a body
TextMessages == {PlainText, [PlainText EXCEPT !.content = ""]}

\* `[${type.toUpperCase()}]`
MediaMarker(type) ==
    CASE type = "image" -> "[IMAGE]"
      [] type = "video" -> "[VIDEO]"
      [] type = "audio" -> "[AUDIO]"
      [] type = "document" -> "[DOCUMENT]"

\* `[${type.toUpperCase()} MESSAGE]`
TypeMarker(type) ==
    CASE type = "location" -> "[LOCATION MESSAGE]"
      [] type = "sticker" -> "[STICKER MESSAGE]"

\* x?.field || '': the empty string for a missing object or field
OrEmpty(content) == IF content = "absent" THEN "" ELSE content

\* let responseContent = ''; let responseType = type; switch (type) {...}:
\* the responseType and responseContent of the Response.  threw: the
\* switch dereferences interactive.button_reply or interactive.list_reply,
\* which throws a TypeError when the reply object is missing
ClassifyInbound(msg) ==
    LET made(rt, content) ==
            [threw |-> FALSE, responseType |-> rt, responseContent |-> content]
    IN CASE msg.type = "text" -> made("text", OrEmpty(msg.content))
         [] msg.type = "button" -> made("button", OrEmpty(msg.content))
         [] msg.type = "interactive" ->
              IF msg.sub \in {"button_reply", "list_reply"}
              THEN IF msg.content = "absent"
                   THEN [made(msg.type, "") EXCEPT !.threw = TRUE]
                   ELSE made(IF msg.sub = "button_reply" THEN "button"
                             ELSE "interactive", msg.content)
              ELSE made(msg.type, "")
         [] msg.type \in MediaTypes ->
              made("media", IF OrEmpty(msg.content) = ""
                            THEN MediaMarker(msg.type) ELSE msg.content)
         [] OTHER -> made(msg.type, TypeMarker(msg.type))

\* responseType: {enum: ['text', 'button', 'interactive', 'media']}
ResponseTypes == {"text", "button", "interactive", "media"}

\* responseType: {enum, required: true}, responseContent: {type: String,
\* required: true}: the validation of Response.save(); a required String
\* does not accept the empty string
ResponseValid(cls) ==
    /\ cls.responseType \in ResponseTypes
    /\ cls.responseContent # ""

\* new Response({...}): n8nWorkflowTriggered defaults to false and is set
\* after a forward that succeeded ("off": no bridge URL is configured);
\* autoResponseSent and n8nResponseSent default to false and
\* autoResponseMessageId is unset (0)
NewResponse(id, k, m, fwd, cls) ==
    [id |-> id, contact |-> k, msg |-> m,
     camp |-> IF m = 0 THEN 0 ELSE msgs[m].camp,
     responseType |-> cls.responseType,
     responseContent |-> cls.responseContent,
     n8n |-> fwd = "ok",
     autoResponseSent |-> FALSE, n8nResponseSent |-> FALSE,
     autoResponseMessageId |-> 0]

\* POST /webhook with one inbound message: handleWhatsAppWebhook calls
\* handleIncomingMessage(messageData).  k = 0 is a sender that is no known
\* contact; msg is the inbound message.  The Response is saved when the
\* switch did not throw, the Response passes validation and no Response
\* carries the message id
HandleIncomingMessage(k, id, msg, fwd, notifyOk) ==
    /\ hooks < MaxHooks
    /\ hooks' = hooks + 1
    /\ LET m == FindOriginalContext(k)
           c == IF m = 0 THEN 0 ELSE msgs[m].camp
           cls == ClassifyInbound(msg)
           saved == ~cls.threw /\ ResponseValid(cls) /\ ~ResponseIdTaken(id)
           outcome == IF ~saved THEN "save-error"
                      ELSE IF ForwardThrows(fwd) THEN "forward-error"
                      ELSE IF notifyOk THEN "notified"
                      ELSE "notify-error"
       IN /\ responses' = IF saved
                          THEN Append(responses,
                                      NewResponse(id, k, m, fwd, cls))
                          ELSE responses
          /\ last' = [Op("inbound", c, fwd, outcome, 0)
                      EXCEPT !.w = id,
                             !.res = WebhookAnswer(outcome # "notified")]
    /\ UNCHANGED <<cStatus, cJobId, cProg, eligible, template, jobs, worker,
                   msgs, nDispatch, now, cSchedAt,
                   phoneCall, buildCall>>

\* POST /webhook with a body that has no entry array: the for...of of
\* handleWhatsAppWebhook throws
WebhookMalformed ==
    /\ hooks < MaxHooks
    /\ hooks' = hooks + 1
    /\ last' = [Op("malformed", 0, "none", "none", 0)
                EXCEPT !.res = WebhookAnswer(TRUE)]
    /\ UNCHANGED <<cStatus, cJobId, cProg, eligible, template, jobs, worker,
                   msgs, nDispatch, responses, now, cSchedAt,
                   phoneCall, buildCall>>

\* ------------------------------------------------------- automated replies
\* sendWhatsAppTextMessage(phone, message): the result for the answer the
\* provider gives and the id of a 2xx answer.  axios rejects for a non-2xx
\* answer and a transport error, a 2xx answer without messages[0] throws
\* inside the try, and the catch returns the failure result; a 2xx answer
\* whose messages[0] has no id passes the test and is returned as a
\* success with messageId undefined (0)
SendWhatsAppTextMessage(ans, id) ==
    IF ans = "ok" THEN [success |-> TRUE, messageId |-> id]
    ELSE IF ans = "noid" THEN [success |-> TRUE, messageId |-> 0]
    ELSE [success |-> FALSE, messageId |-> 0]

\* Response.findById(responseId): the Responses are named by their
\* position; 0 when there is none
FindResponse(rid) == IF rid \in 1..Len(responses) THEN rid ELSE 0

\* if (result.success) { if (responseId) { ... if (response) {...} } }
ResponseMarked(result, r) == result.success /\ r # 0

\* router.post('/send-response'): complete is whether the body has phone
\* and message, rid the responseId of the body (0: none), ans the answer of
\* the provider and id the message id it returns
SendResponse(rid, complete, ans, id) ==
    /\ LET result == SendWhatsAppTextMessage(ans, id)
           r == FindResponse(rid)
       IN IF ~complete
          THEN /\ last' = [Op("reply", 0, "none", "incomplete", 0)
                           EXCEPT !.w = rid, !.res = "400"]
               /\ UNCHANGED responses
          ELSE /\ responses' =
                     IF ResponseMarked(result, r)
                     THEN [responses EXCEPT
                             ![r].autoResponseSent = TRUE,
                             ![r].autoResponseMessageId = result.messageId,
                             ![r].n8nResponseSent = TRUE]
                     ELSE responses
               /\ last' = [Op("reply", 0, ans, "none", 0)
                           EXCEPT !.w = rid,
                                  !.res = IF result.success THEN "200"
                                          ELSE "500"]
    /\ UNCHANGED <<cStatus, cJobId, cProg, eligible, template, jobs, worker,
                   msgs, nDispatch, hooks, now, cSchedAt,
                   phoneCall, buildCall>>

\* ------------------------------------------------------- phone normalizer
\* the characters \D does not match
DigitChars == {"0", "1", "2", "3", "4", "5", "6", "7", "8", "9"}

IsDigit(ch) == ch \in DigitChars

\* cleaned.startsWith('91')
StartsWith91(cleaned) ==
    Len(cleaned) >= 2 /\ cleaned[1] = "9" /\ cleaned[2] = "1"

\* formatPhoneNumber that prepends the country code to every 10-digit number
FormatPhoneNumberAnyTen(phone) ==
    LET cleaned == SelectSeq(phone, IsDigit)
    IN IF Len(cleaned) = 10 THEN <<"9", "1">> \o cleaned ELSE cleaned

\* formatPhoneNumber(phone): a phone number is the sequence of its
\* characters.  let cleaned = phone.replace(/\D/g, '');
\* if (!cleaned.startsWith('91') && cleaned.length === 10)
\*     cleaned = '91' + cleaned;
FormatPhoneNumber(phone) ==
    LET cleaned == SelectSeq(phone, IsDigit)
    IN IF ~StartsWith91(cleaned) /\ Len(cleaned) = 10
       THEN <<"9", "1">> \o cleaned
       ELSE cleaned

\* the characters the enumerated phone numbers are written with: the two
\* digits of the country code and one character that is no digit
PhoneChars == {"9", "1", "+"}

\* phone numbers as contacts carry them: a local number, the same number
\* written with "+91" and blanks, and the number with the country code
LocalNumber == <<"9", "8", "7", "6", "5", "4", "3", "2", "1", "0">>

SpacedNumber ==
    <<"+", "9", "1", " ", "9", "8", "7", "6", "5", " ", "4", "3", "2", "1",
      "0">>

FullNumber == <<"9", "1">> \o LocalNumber

\* the arguments formatPhoneNumber is applied to
PhoneInputs ==
    UNION {[1..n -> PhoneChars] : n \in 0..MaxPhoneLen}
        \cup {LocalNumber, SpacedNumber, FullNumber}

\* formattedPhone = formatPhoneNumber(contact.phone), and the function
\* applied to its own result
ApplyFormatPhoneNumber ==
    /\ ~phoneCall.applied
    /\ phoneCall' = [phoneCall EXCEPT
                       !.out = FormatPhoneNumber(phoneCall.raw),
                       !.again = FormatPhoneNumber(
                                     FormatPhoneNumber(phoneCall.raw)),
                       !.applied = TRUE]
    /\ UNCHANGED <<cStatus, cJobId, cProg, eligible, template, jobs, worker,
                   msgs, nDispatch, hooks, responses, now, cSchedAt,
                   buildCall, last>>

\* ------------------------------------------------- template body builder
\* the names a {{token}} of a template body can carry: the three contact
\* built-ins and one name that is no built-in
Tokens == {"name", "phone", "email", "city"}

\* a template body is the sequence of its pieces: a {{token}} is written as
\* its name, a stretch of other text as "-"
BodyPieces == Tokens \cup {"-"}

\* const variableRegex = /{{(\w+)}}/g: whether a piece is a match
IsToken(piece) == piece \in Tokens

RECURSIVE ExtractFrom(_, _)
\* the while loop of extractTemplateVariables over the rest of the body:
\* if (!variables.includes(match[1])) variables.push(match[1])
ExtractFrom(body, variables) ==
    IF body = <<>> THEN variables
    ELSE LET piece == Head(body)
             seen == \E i \in 1..Len(variables) : variables[i] = piece
         IN ExtractFrom(Tail(body),
                        IF IsToken(piece) /\ ~seen
                        THEN Append(variables, piece)
                        ELSE variables)

\* extractTemplateVariables(templateBody)
ExtractTemplateVariables(body) == ExtractFrom(body, <<>>)

\* the value of a key of a Map of campaign variables or contact metadata,
\* and the values of the contact's own fields; '' is the empty sequence
ValueOf(origin, key) == <<origin, key>>

\* the arrow function of bodyVariables.map with the contact's fields tried
\* before the campaign variables
ResolveVariableContactFirst(variable, variables, contact) ==
    IF variable = "name" THEN contact.name
    ELSE IF variable = "phone" THEN contact.phone
    ELSE IF variable = "email" THEN contact.email
    ELSE IF variable \in DOMAIN variables THEN variables[variable]
    ELSE IF variable \in DOMAIN contact.metadata
    THEN contact.metadata[variable]
    ELSE <<>>

\* let value = ''; if (campaignVariables && campaignVariables.has(variable))
\* ... else if (variable === 'name') ... else if (variable === 'phone') ...
\* else if (variable === 'email') value = contact.email || '';
\* else if (contact.metadata && contact.metadata.has(variable)) ...
ResolveVariable(variable, variables, contact) ==
    IF variable \in DOMAIN variables THEN variables[variable]
    ELSE IF variable = "name" THEN contact.name
    ELSE IF variable = "phone" THEN contact.phone
    ELSE IF variable = "email" THEN contact.email
    ELSE IF variable \in DOMAIN contact.metadata
    THEN contact.metadata[variable]
    ELSE <<>>

\* bodyVariables.map(variable => ({type: 'text', text: value})): the texts
\* of the body parameters; none when the body has no token
BodyParameters(body, variables, contact) ==
    LET bodyVariables == ExtractTemplateVariables(body)
    IN [i \in 1..Len(bodyVariables) |->
           ResolveVariable(bodyVariables[i], variables, contact)]

\* the template bodies, campaign variables and contacts the builder is
\* applied to: a contact has a name and a phone, and may have an email and
\* metadata under any key
BuildBodies == UNION {[1..n -> BodyPieces] : n \in 0..MaxBody}

BuildVariables ==
    {[key \in keys |-> ValueOf("variables", key)] : keys \in SUBSET Tokens}

BuildContacts ==
    {[name |-> ValueOf("contact", "name"),
      phone |-> ValueOf("contact", "phone"),
      email |-> IF hasEmail THEN ValueOf("contact", "email") ELSE <<>>,
      metadata |-> [key \in keys |-> ValueOf("metadata", key)]] :
        hasEmail \in BOOLEAN, keys \in SUBSET Tokens}

\* the BODY part of sendWhatsAppTemplateMessage(phone, template,
\* campaignVariables, contact)
ApplyBodyParameters ==
    /\ ~buildCall.applied
    /\ buildCall' = [buildCall EXCEPT
                       !.params = BodyParameters(buildCall.body,
                                                 buildCall.variables,
                                                 buildCall.contact),
                       !.applied = TRUE]
    /\ UNCHANGED <<cStatus, cJobId, cProg, eligible, template, jobs, worker,
                   msgs, nDispatch, hooks, responses, now, cSchedAt,
                   phoneCall, last>>

\* ------------------------------------------------------- time and restart
\* time passes
Tick ==
    /\ now < MaxTime
    /\ now' = now + 1
    /\ last' = Op("tick", 0, "none", "none", 0)
    /\ UNCHANGED <<cStatus, cJobId, cProg, eligible, template, jobs, worker,
                   msgs, nDispatch, hooks, responses, cSchedAt,
                   phoneCall, buildCall>>

\* the start-up pass without the test of the job handle
StrandedIgnoresHandle(c) == cStatus[c] = "scheduled" /\ cSchedAt[c] >= now

\* Campaign.find({status: 'scheduled', scheduledAt: {$gte: new Date()}})
\* and the test if (!campaign.jobId) of the loop
Stranded(c) ==
    cStatus[c] = "scheduled" /\ cSchedAt[c] >= now /\ cJobId[c] = 0

RECURSIVE ScheduleExisting(_, _, _)
\* the for loop of scheduleExistingCampaigns over the campaigns cs in
\* order: st is the queue and the job handles so far; failAt is the
\* campaign whose campaignQueue.add rejects (0: none), which ends the loop
\* in the catch of the function
ScheduleExisting(cs, st, failAt) ==
    IF cs = <<>> THEN st
    ELSE LET c == Head(cs)
         IN IF ~Stranded(c) THEN ScheduleExisting(Tail(cs), st, failAt)
            ELSE IF c = failAt THEN st
            ELSE ScheduleExisting(
                     Tail(cs),
                     [jobs |-> ScheduleCampaign(st.jobs, c, cSchedAt[c], now,
                                                TRUE),
                      ids |-> [st.ids EXCEPT
                                 ![c] = StoredJobId(st.jobs, 0, TRUE)]],
                     failAt)

\* the process starts while no job is being handled: initializeScheduler
\* registers the handler and awaits scheduleExistingCampaigns()
ProcessStart ==
    /\ worker.pc = "idle"
    /\ Len(jobs) + Cardinality({c \in Campaigns : Stranded(c)}) <= MaxJobs
    /\ \E failAt \in {0} \cup Campaigns :
         LET st == ScheduleExisting(SeqOfSet(Campaigns),
                                    [jobs |-> jobs, ids |-> cJobId], failAt)
         IN /\ jobs' = st.jobs
            /\ cJobId' = st.ids
            /\ last' = Op("boot",
                          IF st.jobs = jobs THEN 0
                          ELSE st.jobs[Len(st.jobs)].camp,
                          IF failAt # 0 /\ Stranded(failAt) THEN "aborted"
                          ELSE "done", "none", 0)
    /\ UNCHANGED <<cStatus, cProg, eligible, template, worker, msgs,
                   nDispatch, hooks, responses, now, cSchedAt,
                   phoneCall, buildCall>>

\* the process dies while the handler of a job is running, at any of its
\* awaits: what the handler held in memory is lost, what it saved stays,
\* and the queue, which finds the job without a live worker, puts it back
\* among the waiting jobs
Crash ==
    /\ worker.pc # "idle"
    /\ jobs[worker.job].stalled < MaxCrashes
    /\ jobs' = [jobs EXCEPT ![worker.job].st = "pending",
                            ![worker.job].stalled = @ + 1]
    /\ worker' = Idle
    /\ last' = Op("crash", worker.c, cStatus[worker.c], "none", 0)
    /\ UNCHANGED <<cStatus, cJobId, cProg, eligible, template, msgs,
                   nDispatch, hooks, responses, now, cSchedAt,
                   phoneCall, buildCall>>

\* ------------------------------------------------------------ next-state
\* the job handler and the send loop it runs, with a provider that gives
\* one of the answers, a database in which campaign.save() of the loop
\* has one of the outcomes saves, and a campaign whose rateLimitPerMinute
\* is one of rates
WorkerIn(answers, saves, rates) ==
    \/ \E j \in 1..MaxJobs : JobFire(j)
    \/ HandlerSkip
    \/ HandlerStart
    \/ LoopSetup(rates)
    \/ LoopDispatch(answers)
    \/ LoopProgress(saves)
    \/ LoopComplete
    \/ LoopFinish

\* the job handler and the send loop with a provider that returns a message
\* id with every message it accepts, a database that takes the loop's
\* counter updates and a campaign with the default rate limit
Worker == WorkerIn(RegularAnswers, {TRUE}, DefaultRates)

\* scheduling and sending: the scheduler bridge, the job handler and the
\* send loop, for campaigns that are due when they are created or
\* rescheduled (scheduledAt: new Date())
Next ==
    \/ \E c \in Campaigns : CreateCampaign(c, now)
    \/ \E k \in Contacts : ContactOptOut(k)
    \/ TemplateChange
    \/ \E c \in Campaigns : CancelCampaign(c)
    \/ \E c \in Campaigns : RescheduleCampaign(c, now)
    \/ Worker

Spec == Init /\ [][Next]_vars

\* sending and reconciling: a campaign is created and sent while provider
\* status callbacks arrive
NextRecon ==
    \/ \E c \in Campaigns : CreateCampaign(c, now)
    \/ Worker
    \/ \E w \in Wamids, s \in HookStatuses, ts \in 1..MaxTs :
          UpdateMessageStatus(w, s, ts)
    \/ WebhookMalformed

SpecRecon == Init /\ [][NextRecon]_vars

\* sending and replies: a campaign is created and sent while inbound
\* messages arrive
NextInbound ==
    \/ \E c \in Campaigns : CreateCampaign(c, now)
    \/ Worker
    \/ \E k \in {0} \cup Contacts, id \in InboundIds, msg \in TextMessages,
          fwd \in {"ok", "fail", "off"}, notifyOk \in BOOLEAN :
          HandleIncomingMessage(k, id, msg, fwd, notifyOk)
    \/ WebhookMalformed

SpecInbound == Init /\ [][NextInbound]_vars

\* scheduling in time: campaigns are created and rescheduled for any time,
\* the clock advances and the process restarts
NextSched ==
    \/ \E c \in Campaigns, at \in Times : CreateCampaign(c, at)
    \/ \E c \in Campaigns : CancelCampaign(c)
    \/ \E c \in Campaigns, at \in Times : RescheduleCampaign(c, at)
    \/ Tick
    \/ ProcessStart
    \/ Worker

SpecSched == Init /\ [][NextSched]_vars

\* sending with crashes: a campaign is created and sent, the process may
\* die while the handler runs, and it starts again.  The worker takes a
\* step whenever it can (every await of the handler resolves) and the
\* process is started again whenever it is down
NextCrash ==
    \/ \E c \in Campaigns : CreateCampaign(c, now)
    \/ Worker
    \/ Crash
    \/ ProcessStart

SpecCrash ==
    Init /\ [][NextCrash]_vars /\ WF_vars(Worker) /\ WF_vars(ProcessStart)

\* scheduling with restarts: campaigns are created for any time, with an
\* enqueue that may fail, the clock advances and the process starts again.
\* The worker takes a step whenever it can, and the process is started
\* again and again with a queue that takes the jobs of its start-up pass
NextRestart ==
    \/ \E c \in Campaigns, at \in Times : CreateCampaign(c, at)
    \/ Tick
    \/ ProcessStart
    \/ Worker

SpecRestart ==
    /\ Init /\ [][NextRestart]_vars
    /\ WF_vars(Worker)
    /\ WF_vars(ProcessStart /\ last'.a = "done")

\* automated replies: inbound messages arrive, are stored and forwarded,
\* and the automation bridge answers them through the send-response route
NextReply ==
    \/ \E k \in {0} \cup Contacts, id \in InboundIds :
          HandleIncomingMessage(k, id, PlainText, "ok", TRUE)
    \/ \E rid \in 0..MaxHooks, complete \in BOOLEAN, ans \in ProviderAnswers,
          id \in ReplyIds :
          SendResponse(rid, complete, ans, id)

SpecReply == Init /\ [][NextReply]_vars

\* inbound messages of every type arrive from known and unknown senders
NextClassify ==
    \E k \in {0} \cup Contacts, id \in InboundIds, msg \in InboundMessages :
       HandleIncomingMessage(k, id, msg, "ok", TRUE)

SpecClassify == Init /\ [][NextClassify]_vars

\* replies to a contact that was sent several messages: a campaign is sent,
\* rescheduled and sent again by a provider that accepts every message,
\* while read and failed callbacks for its messages and inbound text
\* messages arrive (the message ids are taken in increasing order)
NextContext ==
    \/ \E c \in Campaigns : CreateCampaign(c, now)
    \/ \E c \in Campaigns : RescheduleCampaign(c, now)
    \/ WorkerIn({"ok"}, {TRUE}, DefaultRates)
    \/ \E w \in UsedWamids, s \in {"read", "failed"} :
          UpdateMessageStatus(w, s, 1)
    \/ \E k \in {0} \cup Contacts :
          HandleIncomingMessage(k, Len(responses) + 1, PlainText, "ok", TRUE)

SpecContext == Init /\ [][NextContext]_vars

\* the phone normalizer applied to every phone number of the enumeration
InitPhone ==
    /\ InitPipeline
    /\ phoneCall \in {[NoPhoneCall EXCEPT !.raw = p] : p \in PhoneInputs}
    /\ buildCall = NoBuildCall

NextPhone == ApplyFormatPhoneNumber

SpecPhone == InitPhone /\ [][NextPhone]_vars

\* the body-parameter builder applied to every template body, set of
\* campaign variables and contact of the enumeration
InitBuild ==
    /\ InitPipeline
    /\ phoneCall = NoPhoneCall
    /\ buildCall \in {[NoBuildCall EXCEPT !.body = b, !.variables = v,
                                          !.contact = k] :
                         b \in BuildBodies, v \in BuildVariables,
                         k \in BuildContacts}

NextBuild == ApplyBodyParameters

SpecBuild == InitBuild /\ [][NextBuild]_vars

\* the send loop on its own: a campaign is created and sent, with every
\* answer the provider can give, counter updates that may be rejected and
\* every rate limit
NextLoop ==
    \/ \E c \in Campaigns : CreateCampaign(c, now)
    \/ WorkerIn(ProviderAnswers, BOOLEAN, CampaignRates)

SpecLoop == Init /\ [][NextLoop]_vars

TypeOK ==
    /\ cStatus \in [Campaigns -> {"none", "scheduled", "sending", "completed",
                                  "failed", "cancelled"}]
    /\ cJobId \in [Campaigns -> 0..MaxJobs]
    /\ Len(jobs) <= MaxJobs
    /\ hooks \in 0..MaxHooks
    /\ now \in Times
    /\ cSchedAt \in [Campaigns -> Times]
    /\ Len(responses) <= MaxHooks

\* ================================================================ claims
JobsOf(c) == {j \in 1..Len(jobs) : jobs[j].camp = c}

\* no job of the campaign was ever handed to the handler
NeverFired(c) == \A j \in JobsOf(c) : jobs[j].att = 0

\* the job handler took a step
WorkerStep == worker' # worker

\* C1: for every campaign, once the send loop has set progress.total,
\* progress.sent + progress.failed <= progress.total in every reachable
\* state, also when status callbacks interleave with the running loop, and
\* the sum equals progress.total in every state where status is completed.
C1_ProgressWithinTotal ==
    \A c \in Campaigns :
        cStatus[c] \in {"sending", "completed", "failed"} =>
            /\ cProg[c].sent + cProg[c].failed <= cProg[c].total
            /\ cStatus[c] = "completed" =>
                   cProg[c].sent + cProg[c].failed = cProg[c].total

\* C2: the stored Campaign.status only ever changes along
\* scheduled -> sending, sending -> completed, sending -> failed or
\* scheduled -> cancelled (and from absent to scheduled at creation).
StatusMoves ==
    {<<"none", "scheduled">>, <<"scheduled", "sending">>,
     <<"sending", "completed">>, <<"sending", "failed">>,
     <<"scheduled", "cancelled">>}

C2_StatusMonotonic ==
    [][\A c \in Campaigns :
          cStatus'[c] # cStatus[c] =>
              <<cStatus[c], cStatus'[c]>> \in StatusMoves]_vars

\* C3: in every reachable state a campaign's job handle is non-null only
\* if its status is scheduled.
C3_HandleOnlyWhileScheduled ==
    \A c \in Campaigns : cJobId[c] # 0 => cStatus[c] = "scheduled"

\* C4: when the job handler has re-fetched a campaign whose status is not
\* scheduled, its step is a silent no-op: the job ends without an error,
\* nothing is dispatched, no Message is created, no event is emitted, and
\* the campaign's status, progress and job handle are unchanged.
C4_SkipIsNoOp ==
    [][(worker.pc = "fetched" /\ worker.lstatus # "scheduled" /\ WorkerStep)
          => /\ jobs'[worker.job].st = "completed"
             /\ worker'.pc = "idle"
             /\ last'.ev = 0
             /\ UNCHANGED <<cStatus, cProg, cJobId, msgs, nDispatch>>]_vars

C4_Witness == last.op = "skip" /\ last.a \in {"cancelled", "failed"}

\* C5: cancelling a campaign whose job has not yet fired removes the job
\* from the queue, sets status cancelled and clears the job handle; and in
\* every later state before a reschedule (status cancelled, no handle, no
\* job of the campaign ever fired) the campaign has no waiting job, is not
\* being handled and has no Message record.
C5_CancelStep ==
    \A c \in Campaigns :
        (/\ cJobId[c] # 0 /\ cJobId'[c] = 0
         /\ jobs[cJobId[c]].st = "pending"
         /\ NeverFired(c))
        => /\ jobs'[cJobId[c]].st = "removed"
           /\ cStatus'[c] = "cancelled"

C5_Cancelled ==
    \A c \in Campaigns :
        (cStatus[c] = "cancelled" /\ cJobId[c] = 0 /\ NeverFired(c))
        => /\ \A j \in JobsOf(c) : jobs[j].st = "removed"
           /\ worker.c # c
           /\ MsgsOf(c) = {}

C5_CancelBeforeFire == [][C5_CancelStep]_vars /\ []C5_Cancelled

C5_Witness ==
    /\ last.op = "cancel" /\ last.a = "scheduled" /\ last.b = "pending"
    /\ NeverFired(last.c)

\* C6: when the send loop fails at campaign level the campaign is marked
\* failed and the error is re-raised to the queue (the job waits for its
\* next attempt while attempts remain), and each retry attempt of the job
\* runs the send loop again.
C6_FailStep ==
    (worker.pc = "setup" /\ (~template \/ EligibleContacts = <<>>)
     /\ WorkerStep)
    => /\ cStatus'[worker.c] = "failed"
       /\ jobs'[worker.job].st =
              IF jobs[worker.job].att < JobAttempts THEN "pending"
              ELSE "failed"

C6_RetryStep ==
    (worker.pc = "fetched" /\ jobs[worker.job].att > 1 /\ WorkerStep)
    => worker'.pc = "setup"

C6_RetryRerunsLoop == [][C6_FailStep /\ C6_RetryStep]_vars

\* C7: if the template is missing or not approved, or no contact is
\* eligible, the send loop fails fast: the campaign ends failed, nothing is
\* dispatched, no Message is created, progress.sent and progress.failed are
\* unchanged.
C7_FailFast ==
    [][(worker.pc = "setup" /\ (~template \/ EligibleContacts = <<>>)
        /\ WorkerStep)
          => /\ cStatus'[worker.c] = "failed"
             /\ worker'.pc = "idle"
             /\ UNCHANGED <<msgs, nDispatch>>
             /\ cProg'[worker.c].sent = cProg[worker.c].sent
             /\ cProg'[worker.c].failed = cProg[worker.c].failed]_vars

C7_Witness == last.op = "fail" /\ last.a = "template" /\ last.b = "setup"

\* C8: for a campaign with n >= 1 eligible contacts and any outcome of the
\* n dispatches, with no status callback, the loop processes all n
\* contacts and ends completed with progress.total = n, progress.sent and
\* progress.failed the numbers of successful and failed dispatches,
\* delivered = read = 0 and n Message records, sent for the successes and
\* failed for the failures.
\* The first attempt of the campaign's only job has run the loop to its end,
\* and the campaign was neither cancelled nor rescheduled.
FirstRunEnded(c) ==
    /\ last.c = c
    /\ last.op = "finish" \/ (last.op = "fail" /\ last.a = "notify")
    /\ Cardinality(JobsOf(c)) = 1
    /\ \A j \in JobsOf(c) : jobs[j].att = 1
    /\ cJobId[c] # 0

C8_LoopProcessesAll ==
    \A c \in Campaigns :
        FirstRunEnded(c) =>
            /\ cStatus[c] = "completed"
            /\ cProg[c].total >= 1
            /\ Cardinality(MsgsOf(c)) = cProg[c].total
            /\ cProg[c].sent =
                   Cardinality({m \in MsgsOf(c) : msgs[m].status = "sent"})
            /\ cProg[c].failed =
                   Cardinality({m \in MsgsOf(c) : msgs[m].status = "failed"})
            /\ cProg[c].delivered = 0 /\ cProg[c].read = 0

\* C9: when a failed status callback is applied to a Message whose status
\* is sent, the Message becomes failed with its errorMessage set, and the
\* owning campaign's progress.sent decreases by exactly 1 and
\* progress.failed increases by exactly 1, total, delivered and read
\* unchanged.
C9_FailedCallback ==
    [][(/\ hooks' # hooks /\ last'.op = "status" /\ last'.a = "failed"
        /\ last'.m # 0 /\ msgs[last'.m].status = "sent")
          => LET m == last'.m
                 c == msgs[m].camp
             IN /\ msgs'[m].status = "failed"
                /\ msgs'[m].err
                /\ cProg'[c].sent = cProg[c].sent - 1
                /\ cProg'[c].failed = cProg[c].failed + 1
                /\ cProg'[c].total = cProg[c].total
                /\ cProg'[c].delivered = cProg[c].delivered
                /\ cProg'[c].read = cProg[c].read]_vars

C9_Witness ==
    /\ last.op = "status" /\ last.a = "failed" /\ last.b = "sent"
    /\ msgs[last.m].status = "failed"

\* C10: once sentAt, deliveredAt or readAt of a Message is set it never
\* changes, whatever status updates follow, duplicated or out of order.
C10_TimestampsKept ==
    [][\A m \in 1..Len(msgs) :
          /\ msgs[m].sentAt # 0 => msgs'[m].sentAt = msgs[m].sentAt
          /\ msgs[m].deliveredAt # 0 =>
                 msgs'[m].deliveredAt = msgs[m].deliveredAt
          /\ msgs[m].readAt # 0 => msgs'[m].readAt = msgs[m].readAt]_vars

\* a delivered update applied to a Message that was already delivered
C10_Witness ==
    /\ last.op = "status" /\ last.a = "delivered" /\ last.b = "delivered"
    /\ msgs[last.m].deliveredAt # 0

\* C11: a status update whose external id matches no Message is ignored:
\* the callback is acknowledged without an error, and no Message and no
\* Campaign (status, progress counters, job handle) changes.
C11_UnknownIdIgnored ==
    [][(/\ hooks' # hooks /\ last'.op \in {"status", "statuserr"}
        /\ last'.w \notin UsedWamids)
          => /\ last'.res = "200"
             /\ UNCHANGED <<msgs, cStatus, cProg, cJobId>>]_vars

\* an unknown id arrived while Message records existed
C11_Witness ==
    /\ last.op = "status" /\ last.w \notin UsedWamids
    /\ UsedWamids # {}

\* C12: the POST handler of provider callbacks always answers with the
\* success acknowledgement, whatever happened while it processed the event
\* (unknown id, malformed body, persistence error, inbound failure).
C12_AlwaysAcknowledged ==
    last.op \in {"status", "statuserr", "inbound", "malformed"}
        => last.res = "200"

\* C13: a failing notification (started, message failed, completed) is not
\* propagated into the send loop: the step of the loop that emits it
\* continues as it does when the notification succeeds, and the campaign's
\* status is not changed by it.
C13_NotifyNotPropagated ==
    [][WorkerStep =>
          /\ (worker.pc = "setup" /\ template /\ EligibleContacts # <<>>)
                => /\ worker'.pc = "dispatch"
                   /\ cStatus'[worker.c] = cStatus[worker.c]
          /\ worker.pc = "progress"
                => /\ worker'.pc \in {"dispatch", "complete"}
                   /\ cStatus'[worker.c] = cStatus[worker.c]
          /\ worker.pc = "notify"
                => /\ jobs'[worker.job].st = "completed"
                   /\ cStatus'[worker.c] = cStatus[worker.c]]_vars

\* C14: when forwarding an inbound response to the automation bridge
\* fails, the failure is swallowed: the Response that was stored stays
\* stored with n8nWorkflowTriggered false, the earlier Responses are
\* untouched, the notification step still runs, and the caller gets an
\* error only if that notification fails.
C14_ForwardFailureSwallowed ==
    [][(/\ hooks' # hooks /\ last'.op = "inbound" /\ last'.a = "fail"
        /\ Len(responses') = Len(responses) + 1)
          => /\ ~responses'[Len(responses')].n8n
             /\ responses'[Len(responses')].id = last'.w
             /\ \A r \in 1..Len(responses) : responses'[r] = responses[r]
             /\ last'.b \in {"notified", "notify-error"}
             /\ last'.b = "notified" => last'.res = "200"]_vars

C14_Witness ==
    /\ last.op = "inbound" /\ last.a = "fail" /\ last.b = "notified"
    /\ responses # <<>>
    /\ responses[Len(responses)].id = last.w
    /\ ~responses[Len(responses)].n8n

\* C15: no two Message records carry the same non-empty external id, and a
\* dispatch answered with an id that a Message already carries does not
\* create a Message with that id.
C15_NoSharedId ==
    \A m, n \in 1..Len(msgs) :
        (m # n /\ msgs[m].wamid # 0) => msgs[m].wamid # msgs[n].wamid

C15_RejectedAtCreation ==
    (Len(msgs') = Len(msgs) + 1 /\ last'.w \in UsedWamids)
        => msgs'[Len(msgs')].wamid # last'.w

C15_UniqueExternalId == []C15_NoSharedId /\ [][C15_RejectedAtCreation]_vars

\* the provider answered a dispatch with an id it had returned before
C15_Witness ==
    /\ last.op = "dispatch" /\ last.a = "duplicate"
    /\ \E m \in 1..Len(msgs) : msgs[m].wamid = last.w

\* C16: a cancel for a campaign whose job was consumed and whose send loop
\* is in progress raises no error and leaves the loop alone: the handler's
\* state and the Message records are untouched by it.
C16_CancelDuringLoop ==
    [][\A c \in Campaigns :
          (/\ last'.op = "cancel" /\ last'.c = c
           /\ worker.c = c /\ worker.pc \in {"setup", "dispatch", "progress"}
           /\ cJobId[c] = worker.job)
          => /\ last'.res = "ok"
             /\ UNCHANGED <<worker, msgs, nDispatch>>]_vars

\* C17: after reschedule(campaignId, newTime) returns for a campaign that
\* had a pending job, the stored campaign has status scheduled, scheduledAt
\* = newTime and a job handle naming its only pending job, the previous job
\* is no longer waiting; and the handler that the job of a rescheduled
\* campaign starts runs the send loop.
C17_RescheduleStep ==
    \A c \in Campaigns :
        (/\ last'.op = "reschedule" /\ last'.c = c /\ last'.res = "ok"
         /\ cJobId[c] # 0 /\ jobs[cJobId[c]].st = "pending")
        => /\ cStatus'[c] = "scheduled"
           /\ cSchedAt'[c] = last'.w
           /\ cJobId'[c] # 0 /\ cJobId'[c] # cJobId[c]
           /\ {j \in 1..Len(jobs') :
                  jobs'[j].camp = c /\ jobs'[j].st = "pending"} = {cJobId'[c]}
           /\ jobs'[cJobId[c]].st = "removed"

C17_FireStep ==
    (/\ worker.pc = "fetched" /\ WorkerStep
     /\ cJobId[worker.c] = worker.job /\ jobs[worker.job].att = 1
     /\ \E j \in JobsOf(worker.c) : jobs[j].st = "removed")
    => worker'.pc = "setup"

C17_Rescheduled == [][C17_RescheduleStep /\ C17_FireStep]_vars

\* C18: schedule(campaign) adds exactly one send-campaign job for the
\* campaign, with no delay when scheduledAt - now <= 0 and with delay
\* scheduledAt - now otherwise, with 3 attempts and a backoff of 2000 ms,
\* and stores the job's handle on the campaign; when the add fails the
\* error is raised, no job is added and no handle is stored.
C18_ScheduleStep ==
    \A c \in Campaigns :
        (/\ last'.op \in {"create", "reschedule"} /\ last'.c = c
         /\ last'.b # "cancel")
        => IF last'.b = "enqueue"
           THEN /\ last'.res \in {"500", "error"}
                /\ Len(jobs') = Len(jobs)
                /\ cJobId'[c] = 0
           ELSE /\ Len(jobs') = Len(jobs) + 1
                /\ jobs'[Len(jobs')] =
                     [camp |-> c, st |-> "pending", att |-> 0, ts |-> now,
                      delay |-> IF last'.w - now <= 0 THEN 0
                                ELSE last'.w - now,
                      attempts |-> 3, backoff |-> 2000,
                      stalled |-> 0]
                /\ cJobId'[c] = Len(jobs')
                /\ \A j \in 1..Len(jobs) : jobs'[j].camp = jobs[j].camp

C18_ScheduleCampaign == [][C18_ScheduleStep]_vars

\* a campaign was created for a later time, and one for a time gone by
C18_Witness ==
    /\ last.op = "create" /\ last.b = "none"
    /\ last.w > now \/ last.w < now
    /\ jobs[cJobId[last.c]].delay = IF last.w > now THEN last.w - now ELSE 0

\* C19: when the process starts (and the queue accepts the jobs), every
\* campaign with status scheduled, scheduledAt in the future and no job
\* handle gets exactly one job and that job's handle; campaigns that have a
\* handle, or whose status is not scheduled, get no job and keep their
\* handle.
C19_StartStep ==
    (last'.op = "boot" /\ last'.a = "done")
    => \A c \in Campaigns :
          LET added == {j \in (Len(jobs) + 1)..Len(jobs') : jobs'[j].camp = c}
          IN /\ (cStatus[c] = "scheduled" /\ cSchedAt[c] > now
                 /\ cJobId[c] = 0)
                    => /\ Cardinality(added) = 1
                       /\ cJobId'[c] \in added
                       /\ jobs'[cJobId'[c]].st = "pending"
             /\ (cJobId[c] # 0 \/ cStatus[c] # "scheduled")
                    => /\ added = {}
                       /\ cJobId'[c] = cJobId[c]

C19_StartReenqueues == [][C19_StartStep]_vars

\* the start-up pass gave a stranded campaign its job
C19_Witness ==
    /\ last.op = "boot" /\ last.a = "done" /\ last.c # 0
    /\ cJobId[last.c] = Len(jobs)
    /\ cSchedAt[last.c] > now

\* C20: once a campaign exists, its progress.total never decreases: the
\* total the send loop writes is not smaller than the total the campaign
\* held.
C20_TotalNeverDecreases ==
    [][\A c \in Campaigns :
          cStatus[c] # "none" => cProg'[c].total >= cProg[c].total]_vars

\* C21: a dispatch that the provider does not accept with a message id (a
\* transport error, a non-2xx answer, or a 2xx answer without a message id)
\* is recorded by the send loop as a failed Message and is counted under
\* progress.failed, never as sent.
C21_FailureRecordedAsFailed ==
    [][(last'.op = "dispatch"
        /\ last'.b \in {"noid", "nomessages", "fail", "transport"})
          => /\ Len(msgs') = Len(msgs) + 1
             /\ msgs'[Len(msgs')].status = "failed"
             /\ worker'.out = "fail"]_vars

\* C22: the creation webhook creates no Campaign and enqueues no job when
\* the template does not exist or no contact is resolved, and answers 400;
\* otherwise it creates exactly one Campaign with status scheduled,
\* progress.total = the number of resolved contacts and the other counters
\* 0, and, when the queue accepts the job, enqueues exactly one job for it.
C22_CreateStep ==
    \A c \in Campaigns :
        (last'.op \in {"create", "reject"} /\ last'.c = c)
        => IF last'.a = "notemplate" \/ EligibleContacts = <<>>
           THEN /\ last'.res = "400"
                /\ UNCHANGED <<cStatus, cProg, cJobId, jobs, cSchedAt>>
           ELSE /\ cStatus[c] = "none" /\ cStatus'[c] = "scheduled"
                /\ \A d \in Campaigns \ {c} :
                      cStatus'[d] = cStatus[d] /\ cProg'[d] = cProg[d]
                /\ cProg'[c] = [total |-> Len(EligibleContacts), sent |-> 0,
                                delivered |-> 0, read |-> 0, failed |-> 0]
                /\ last'.b # "enqueue"
                      => /\ last'.res = "201"
                         /\ Len(jobs') = Len(jobs) + 1
                         /\ SubSeq(jobs', 1, Len(jobs)) = jobs
                         /\ jobs'[Len(jobs')].camp = c
                         /\ jobs'[Len(jobs')].st = "pending"

C22_CreationWebhook == [][C22_CreateStep]_vars

\* a creation request was answered 400 because no contact was resolved
C22_Witness ==
    /\ last.op = "reject" /\ last.b = "contacts" /\ last.res = "400"
    /\ \A c \in Campaigns : cStatus[c] = "none"
    /\ jobs = <<>>

\* C23: the send-response endpoint marks the Response named by responseId
\* as auto-responded (autoResponseSent and n8nResponseSent true,
\* autoResponseMessageId set) if and only if the text send succeeded and
\* the Response exists; when phone or message is missing, or the send
\* fails, no Response record is changed.
C23_ReplyStep ==
    last'.op = "reply"
    => LET rid == last'.w
           sent == last'.b = "none" /\ last'.a = "ok"
       IN IF sent /\ rid \in 1..Len(responses)
          THEN /\ responses'[rid].autoResponseSent
               /\ responses'[rid].n8nResponseSent
               /\ responses'[rid].autoResponseMessageId \in ReplyIds
               /\ responses' =
                     [responses EXCEPT
                        ![rid].autoResponseSent = TRUE,
                        ![rid].n8nResponseSent = TRUE,
                        ![rid].autoResponseMessageId =
                            responses'[rid].autoResponseMessageId]
               /\ last'.res = "200"
          ELSE /\ responses' = responses
               /\ sent <=> last'.res = "200"

C23_SendResponse == [][C23_ReplyStep]_vars

\* C24: phone normalization strips every non-digit and prepends 91 exactly
\* when the remaining digits number 10 and do not start with 91; it is
\* idempotent; and it maps 9876543210, "+91 98765 43210" and 919876543210
\* all to 919876543210.
C24_PhoneNormalized ==
    phoneCall.applied
    => LET raw == phoneCall.raw
           out == phoneCall.out
           digits == SelectSeq(raw, IsDigit)
           prefixed == Len(digits) = 10
                       /\ ~(digits[1] = "9" /\ digits[2] = "1")
       IN /\ \A i \in 1..Len(out) : out[i] \in DigitChars
          /\ prefixed => out = <<"9", "1">> \o digits
          /\ ~prefixed => out = digits
          /\ phoneCall.again = out
          /\ raw \in {LocalNumber, SpacedNumber, FullNumber}
                => out = <<"9", "1", "9", "8", "7", "6", "5", "4", "3", "2",
                           "1", "0">>

\* a number written with a non-digit and 10 digits got the country code
C24_Witness ==
    /\ phoneCall.applied
    /\ Len(phoneCall.raw) = 11
    /\ \E i \in 1..11 : phoneCall.raw[i] = "+"
    /\ Len(phoneCall.out) = 12
    /\ phoneCall.again = phoneCall.out

\* the positions of a body at which a token occurs for the first time
FirstOccurrences(body) ==
    {i \in 1..Len(body) :
        body[i] \in Tokens /\ \A j \in 1..(i - 1) : body[j] # body[i]}

\* C25: for every named body token the builder takes the value from the
\* campaign variables when the key is present there, otherwise from the
\* contact built-ins name, phone, email, otherwise from contact.metadata,
\* otherwise the empty string; it emits exactly one body parameter per
\* distinct token, in order of first occurrence, and never fails on an
\* unresolved token.
C25_BodyParameters ==
    buildCall.applied
    => LET body == buildCall.body
           vs == buildCall.variables
           k == buildCall.contact
           first == SeqOfSet(FirstOccurrences(body))
           params == buildCall.params
       IN /\ Len(params) = Len(first)
          /\ \A i \in 1..Len(first) :
                LET t == body[first[i]]
                IN params[i] =
                     IF t \in DOMAIN vs THEN <<"variables", t>>
                     ELSE IF t = "name" THEN <<"contact", "name">>
                     ELSE IF t = "phone" THEN <<"contact", "phone">>
                     ELSE IF t = "email"
                     THEN (IF k.email = <<>> THEN <<>>
                           ELSE <<"contact", "email">>)
                     ELSE IF t \in DOMAIN k.metadata THEN <<"metadata", t>>
                     ELSE <<>>

\* a body that repeats a token, with a built-in that the campaign
\* variables override, a metadata value and an unresolved token
C25_Witness ==
    /\ buildCall.applied
    /\ buildCall.body = <<"name", "city", "name">>
    /\ DOMAIN buildCall.variables = {"name"}
    /\ DOMAIN buildCall.contact.metadata = {"name"}
    /\ buildCall.params = <<<<"variables", "name">>, <<>>>>

\* C26: progress-counter updates are atomic per campaign: the increment of
\* the send loop and the compensation of a failed callback (failed + 1,
\* sent - 1) each apply to the stored counters as they are, so that no
\* update is lost when a failed callback for a message already sent is
\* processed while the loop of the same campaign is running, and the
\* counters end as a serial order of the updates would leave them.
C26_UpdateStep ==
    /\ (WorkerStep /\ worker.pc = "progress")
          => LET c == worker.c
             IN IF worker.out = "ok"
                THEN /\ cProg'[c].sent = cProg[c].sent + 1
                     /\ cProg'[c].failed = cProg[c].failed
                ELSE /\ cProg'[c].failed = cProg[c].failed + 1
                     /\ cProg'[c].sent = cProg[c].sent
    /\ (last'.op = "status" /\ last'.a = "failed" /\ last'.m # 0)
          => LET c == last'.c
             IN /\ cProg'[c].failed = cProg[c].failed + 1
                /\ cProg'[c].sent = cProg[c].sent - 1

C26_NoLostUpdate == [][C26_UpdateStep]_vars

\* C27: whenever a campaign is quiescent (its send loop has ended and every
\* status callback that arrived has been processed, in any order and with
\* duplicates), progress.failed is the number of its Messages with status
\* failed and progress.sent the number of its Messages with status sent,
\* delivered or read.
C27_CountersMatchMessages ==
    \A c \in Campaigns :
        (cStatus[c] \in {"completed", "failed"} /\ worker.c # c)
        => /\ cProg[c].failed =
                 Cardinality({m \in MsgsOf(c) : msgs[m].status = "failed"})
           /\ cProg[c].sent =
                 Cardinality({m \in MsgsOf(c) :
                                 msgs[m].status \in {"sent", "delivered",
                                                     "read"}})

\* C28: the status of a Message only moves forward along pending -> sent ->
\* delivered -> read, or to failed: no status update, out of order or
\* duplicated, takes a Message back to an earlier stage, and a failed
\* Message never becomes sent, delivered or read again.
C28_Forward(old, new) ==
    \/ new = old
    \/ new = "failed"
    \/ old = "pending" /\ new \in {"sent", "delivered", "read"}
    \/ old = "sent" /\ new \in {"delivered", "read"}
    \/ old = "delivered" /\ new = "read"

C28_StatusOnlyForward ==
    [][\A m \in 1..Len(msgs) :
          C28_Forward(msgs[m].status, msgs'[m].status)]_vars

\* C29: in one run of the send loop exactly one Message is created for each
\* eligible contact, never two for the same contact, also when a
\* persistence step after the dispatch (saving the Message or saving the
\* campaign) fails; and the loop never modifies a Message it created.
C29_OnePerContact ==
    \A c \in Campaigns :
        /\ \A k \in Contacts :
              Cardinality({m \in MsgsOf(c) : msgs[m].contact = k}) <= 1
        /\ (worker.c = c /\ worker.pc \in {"complete", "notify"})
              => \A i \in 1..Len(worker.cl) :
                    \E m \in MsgsOf(c) : msgs[m].contact = worker.cl[i]

C29_LoopOnlyAppends ==
    WorkerStep => SubSeq(msgs', 1, Len(msgs)) = msgs

C29_OneMessagePerContact ==
    [] C29_OnePerContact /\ [][C29_LoopOnlyAppends]_vars

C31_Pos(k) == CHOOSE j \in 1..Len(worker.cl) : worker.cl[j] = k

\* the contacts of the loop's list that have a Message of the campaign
C31_Recorded ==
    {j \in 1..Len(worker.cl) :
        \E m \in MsgsOf(worker.c) : msgs[m].contact = worker.cl[j]}

C32_Received(msg) ==
    \E k \in {0} \cup Contacts, id \in InboundIds :
       /\ ~ResponseIdTaken(id)
       /\ HandleIncomingMessage(k, id, msg, "ok", TRUE)

\* C32: for every inbound message, whatever its type and sub-fields and
\* also with empty or missing content, a Response is persisted whose
\* responseType is one of text, button, interactive and media, and a
\* message of an unrecognized type gets a bracketed marker of its type as
\* content
C32_EveryTypePersisted ==
    [][\A msg \in InboundMessages :
          C32_Received(msg) =>
             /\ Len(responses') = Len(responses) + 1
             /\ responses'[Len(responses')].responseType \in ResponseTypes
             /\ msg.type \in OtherTypes =>
                  responses'[Len(responses')].responseContent
                     = TypeMarker(msg.type)]_vars

\* ---------------------------------------------------------------- C33
\* the Messages of contact k that an inbound message may be linked to
C33_Candidates(k) ==
    {m \in 1..Len(msgs) :
        /\ msgs[m].contact = k
        /\ msgs[m].status \in {"sent", "delivered", "read"}}

\* an inbound message of sender k with a new id is received
C33_Received(k) ==
    \E id \in InboundIds :
       /\ ~ResponseIdTaken(id)
       /\ HandleIncomingMessage(k, id, PlainText, "ok", TRUE)

\* C33: the Response of an inbound message is linked to the Message with
\* the greatest sentAt among the sender's Messages whose status is sent,
\* delivered or read, and to the campaign of that Message; a failed Message
\* is never chosen; when the sender has no such Message both links are
\* null, and the Response is persisted all the same
C33_LinkedToLatest ==
    [][\A k \in {0} \cup Contacts :
          C33_Received(k) =>
             /\ Len(responses') = Len(responses) + 1
             /\ LET r == responses'[Len(responses')]
                    S == C33_Candidates(k)
                IN /\ r.contact = k
                   /\ IF S = {}
                      THEN r.msg = 0 /\ r.camp = 0
                      ELSE /\ r.msg \in S
                           /\ \A n \in S :
                                 msgs[n].sentAt <= msgs[r.msg].sentAt
                           /\ r.camp = msgs[r.msg].camp]_vars

\* the sender's latest Message has failed and the Response is linked to an
\* earlier one
C33_Witness ==
    /\ last.op = "inbound"
    /\ Len(responses) > 0
    /\ LET r == responses[Len(responses)]
       IN /\ r.id = last.w
          /\ r.msg # 0
          /\ \E n \in 1..Len(msgs) :
               /\ msgs[n].contact = r.contact
               /\ msgs[n].sentAt > msgs[r.msg].sentAt
               /\ msgs[n].status = "failed"

\* ---------------------------------------------------------------- C34
\* C34: for every campaign 0 <= progress.sent <= progress.total and
\* 0 <= progress.failed <= progress.total in every reachable state, under
\* any sequence of status callbacks, a failed callback that arrives twice
\* for one message or for a Message that is already failed included
C34_CountersInRange ==
    \A c \in Campaigns :
        /\ 0 <= cProg[c].sent /\ cProg[c].sent <= cProg[c].total
        /\ 0 <= cProg[c].failed /\ cProg[c].failed <= cProg[c].total

\* ---------------------------------------------------------------- C35
\* C35: no operation of the send loop or of the status reconciler changes
\* progress.delivered or progress.read: both keep their creation value 0
\* through any sequence of dispatches and of sent, delivered, read and
\* failed status updates
C35_Unchanged ==
    \A c \in Campaigns :
        /\ cProg'[c].delivered = cProg[c].delivered
        /\ cProg'[c].read = cProg[c].read

C35_Zero == \A c \in Campaigns : cProg[c].delivered = 0 /\ cProg[c].read = 0

C35_DeliveredReadUntouched == [][C35_Unchanged]_vars /\ []C35_Zero

\* a delivered or read callback was applied to a Message of a campaign
C35_Witness ==
    /\ last.op = "status"
    /\ last.a \in {"delivered", "read"}
    /\ last.m # 0
    /\ msgs[last.m].status = last.a
    /\ cProg[last.c].sent > 0
    /\ cProg[last.c].delivered = 0
    /\ cProg[last.c].read = 0

\* ---------------------------------------------------------------- C36
\* the handler has read status scheduled and has not yet saved sending,
\* and a cancel has completed meanwhile
C36_CancelledInWindow ==
    /\ worker.pc = "fetched"
    /\ worker.lstatus = "scheduled"
    /\ cStatus[worker.c] = "cancelled"

C37_AtMostOneDispatch ==
    \A c \in Campaigns :
        /\ nDispatch[c] <= NumContacts
        /\ \A k \in Contacts :
              Cardinality({m \in MsgsOf(c) : msgs[m].contact = k}) <= 1

\* ---------------------------------------------------------------- C38
\* C38: every campaign whose status becomes sending eventually reaches
\* completed or failed, when every dispatch returns and the worker is
\* scheduled fairly, also when the process crashes in the middle of the
\* send loop and starts again (start-up recovery and the redelivery of the
\* interrupted job included)
C38_SendingEnds ==
    \A c \in Campaigns :
        (cStatus[c] = "sending") ~> (cStatus[c] \in {"completed", "failed"})

\* ---------------------------------------------------------------- C39
\* C39: every campaign persisted with status scheduled eventually has a
\* pending job or leaves the scheduled status, under fair scheduling and
\* process restarts, also when the enqueue of the creation webhook failed
\* or was cut short and scheduledAt is in the past at the next start
C39_ScheduledGetsJob ==
    \A c \in Campaigns :
        (cStatus[c] = "scheduled")
            ~> (\/ cStatus[c] # "scheduled"
                \/ \E j \in JobsOf(c) : jobs[j].st = "pending")

\* ---------------------------------------------------------------- C40
\* an inbound message whose id already has a Response is processed
C40_Redelivered ==
    /\ hooks' # hooks
    /\ last'.op = "inbound"
    /\ ResponseIdTaken(last'.w)

\* no two Responses carry the same message id
C40_OneResponsePerId ==
    \A r1, r2 \in 1..Len(responses) :
        responses[r1].id = responses[r2].id => r1 = r2

\* C40: processing the same inbound message twice is idempotent: there is
\* exactly one Response for its id afterwards, and the second delivery is
\* acknowledged to the provider like the first, which every first delivery
\* of this specification is with 200
C40_RedeliveryIdempotent ==
    /\ []C40_OneResponsePerId
    /\ [][C40_Redelivered =>
             /\ responses' = responses
             /\ last'.res = "200"]_vars

====
